---------------------------- MODULE Spec2Model ----------------------------
(***************************************************************************)
(* A model of cmpe.py (nacase/py-cmpe): calculator-style helper functions  *)
(* for bit manipulation, byte swapping, size parsing and ratio solving.    *)
(*                                                                         *)
(* Every function of cmpe.py is pure, so each is an operator computed as   *)
(* the source computes it, and a specification draws the arguments of a    *)
(* call from bounded sets in its initial states and applies the function   *)
(* in its actions.  Python strings are sequences of one-character strings. *)
(*                                                                         *)
(*   fn     the function (or round trip) the run exercises                 *)
(*   args   the arguments of the call                                      *)
(*   ret    what the last call returned, raised or printed                 *)
(*   calls  how many calls the run has made                                *)
(***************************************************************************)
EXTENDS Integers, Sequences, FiniteSets

VARIABLES fn, args, ret, calls

vars == <<fn, args, ret, calls>>

(***************************************************************************)
(* Bounds of the model.                                                    *)
(***************************************************************************)
\* Integer arguments of the bit functions range over 0 .. MaxVal.
MaxVal == 260

\* Widths (bits, num_bits) range over 0 .. MaxBits.
MaxBits == 10

\* Strings handed to _group_str have at most MaxLen characters.
MaxLen == 5

\* Group lengths handed to _group_str range over 1 .. MaxGroup.
MaxGroup == 4

\* Numeric arguments of ratio() range over 0 .. MaxNum.
MaxNum == 3

\* Numeric magnitudes handed to size(val, unit) range over 0 .. MaxMag.
MaxMag == 3

(***************************************************************************)
(* Python built-ins used by the source.                                    *)
(***************************************************************************)
\* What a call that has not happened yet has returned.
NoValue == "<no value>"

\* x & y on non-negative integers.
RECURSIVE BitAnd(_, _)
BitAnd(x, y) ==
    IF x = 0 \/ y = 0 THEN 0
    ELSE ((x % 2) * (y % 2)) + 2 * BitAnd(x \div 2, y \div 2)

\* x | y on non-negative integers.
RECURSIVE BitOr(_, _)
BitOr(x, y) ==
    IF x = 0 THEN y
    ELSE IF y = 0 THEN x
    ELSE (IF x % 2 = 1 \/ y % 2 = 1 THEN 1 ELSE 0) + 2 * BitOr(x \div 2, y \div 2)

\* x << n and x >> n on non-negative integers.
ShiftLeft(x, n) == x * (2 ^ n)
ShiftRight(x, n) == x \div (2 ^ n)

\* s * n for a string s: n copies of s, the empty string when n <= 0.
RECURSIVE StrRepeat(_, _)
StrRepeat(s, n) == IF n <= 0 THEN <<>> ELSE s \o StrRepeat(s, n - 1)

\* s.startswith(p) and s.endswith(p).
StartsWith(s, p) == Len(s) >= Len(p) /\ SubSeq(s, 1, Len(p)) = p
EndsWith(s, p) == Len(s) >= Len(p) /\ SubSeq(s, Len(s) - Len(p) + 1, Len(s)) = p

\* The hexadecimal digits, in order.
HexChars == <<"0", "1", "2", "3", "4", "5", "6", "7",
              "8", "9", "a", "b", "c", "d", "e", "f">>

RECURSIVE HexDigits(_)
HexDigits(v) ==
    IF v < 16 THEN <<HexChars[v + 1]>>
    ELSE HexDigits(v \div 16) \o <<HexChars[(v % 16) + 1]>>

\* hex(val) for val >= 0.  Python 2 ends the text of a long with "L"
\* (the script supports both Pythons, line 27); long says val is one.
PyHex(val, long) ==
    <<"0", "x">> \o HexDigits(val) \o (IF long THEN <<"L">> ELSE <<>>)

\* int(s, 2): ValueError for the empty string and for a character that is
\* not a binary digit.
RECURSIVE Base2Value(_)
Base2Value(s) ==
    IF s = <<>> THEN 0
    ELSE 2 * Base2Value(SubSeq(s, 1, Len(s) - 1)) + (IF s[Len(s)] = "1" THEN 1 ELSE 0)

PyIntBase2(s) ==
    IF s = <<>> \/ \E i \in 1..Len(s) : s[i] \notin {"0", "1"}
    THEN "ValueError"
    ELSE Base2Value(s)

\* range(start, stop, step) for step < 0, as a sequence.
RECURSIVE RangeDown(_, _, _)
RangeDown(start, stop, step) ==
    IF start <= stop THEN <<>>
    ELSE <<start>> \o RangeDown(start + step, stop, step)

(***************************************************************************)
(* _group_str, _rawhex, int2bin, bitrev, bin2int (lines 98-159).           *)
(***************************************************************************)
\* The loop of _group_str over str[k..]: new += c; i += 1; a space is
\* added when i % length == 0.
RECURSIVE GroupLoop(_, _, _, _)
GroupLoop(str, k, i, length) ==
    IF k > Len(str) THEN <<>>
    ELSE <<str[k]>>
         \o (IF (i + 1) % length = 0 THEN <<" ">> ELSE <<>>)
         \o GroupLoop(str, k + 1, i + 1, length)

\* _group_str counting from 0: the groups are left justified.
group_str_left_justified(str, length) == GroupLoop(str, 1, 0, length)

group_str(str, length) ==
    GroupLoop(str, 1, length - (Len(str) % length), length)

rawhex(hexstr) ==
    LET s1 == IF StartsWith(hexstr, <<"0", "x">>)
              THEN SubSeq(hexstr, 3, Len(hexstr)) ELSE hexstr
    IN  IF EndsWith(hexstr, <<"L">>) THEN SubSeq(s1, 1, Len(s1) - 1) ELSE s1

\* The first loop of int2bin: bit x of val is inserted at the front.
RECURSIVE Int2BinBits(_, _, _)
Int2BinBits(val, x, num_bits) ==
    IF x >= num_bits THEN <<>>
    ELSE Int2BinBits(val, x + 1, num_bits)
         \o <<IF BitAnd(ShiftRight(val, x), 1) # 0 THEN 1 ELSE 0>>

\* num_bits == 0 infers the width from the hexadecimal text of val.
Int2BinWidth(val, num_bits, long) ==
    IF num_bits = 0 THEN Len(rawhex(PyHex(val, long))) * 4 ELSE num_bits

\* int2bin looping over range(1, num_bits): bit 0 is left out.
int2bin_skips_bit_0(val, num_bits, long) ==
    LET bits == Int2BinBits(val, 1, Int2BinWidth(val, num_bits, long))
    IN  [i \in 1..Len(bits) |-> IF bits[i] = 1 THEN "1" ELSE "0"]

int2bin(val, num_bits, long) ==
    LET bits == Int2BinBits(val, 0, Int2BinWidth(val, num_bits, long))
    IN  [i \in 1..Len(bits) |-> IF bits[i] = 1 THEN "1" ELSE "0"]

\* for c in binstr: revs = c + revs
Reversed(s) == [i \in 1..Len(s) |-> s[Len(s) + 1 - i]]

bitrev(val, bits, long) ==
    LET binstr0 == int2bin(val, 0, long)
        binstr == IF Len(binstr0) # bits
                  THEN StrRepeat(<<"0">>, bits - Len(binstr0)) \o binstr0
                  ELSE binstr0
    IN  PyIntBase2(Reversed(binstr))

bin2int(binstr) == PyIntBase2(binstr)

(***************************************************************************)
(* ones, zeros, inspect (lines 161-202).                                   *)
(***************************************************************************)
RECURSIVE OnesLoop(_, _, _, _)
OnesLoop(val, x, bits, rev) ==
    IF x >= bits THEN <<>>
    ELSE (IF BitAnd(val, ShiftLeft(1, x)) # 0
          THEN <<IF rev THEN bits - x - 1 ELSE x>> ELSE <<>>)
         \o OnesLoop(val, x + 1, bits, rev)

ones(val, bits, rev) == OnesLoop(val, 0, bits, rev)

RECURSIVE ZerosLoop(_, _, _, _)
ZerosLoop(val, x, bits, rev) ==
    IF x >= bits THEN <<>>
    ELSE (IF ~(BitAnd(val, ShiftLeft(1, x)) # 0)
          THEN <<IF rev THEN bits - x - 1 ELSE x>> ELSE <<>>)
         \o ZerosLoop(val, x + 1, bits, rev)

\* zeros reporting bits-x for a reversed index, one too many.
zeros_reversed_off_by_one(val, bits, rev) ==
    LET l == ZerosLoop(val, 0, bits, rev)
    IN  [i \in 1..Len(l) |-> IF rev THEN l[i] + 1 ELSE l[i]]

zeros(val, bits, rev) == ZerosLoop(val, 0, bits, rev)

\* The bit-position labels of the header line: for x in range(bits-1,-1,-4).
InspectLabels(bits, rev) ==
    LET xs == RangeDown(bits - 1, -1, -4)
    IN  [k \in 1..Len(xs) |-> IF rev THEN bits - xs[k] - 1 ELSE xs[k]]

\* The report inspect prints, line by line.
inspect(val, rev, num_bits, long) ==
    LET binstr == int2bin(val, num_bits, long)
        bits == Len(binstr)
    IN  [decimal |-> val,
         binary  |-> binstr,
         labels  |-> InspectLabels(bits, rev),
         grouped |-> group_str(int2bin(val, num_bits, long), 4),
         ones    |-> ones(val, bits, rev),
         zeros   |-> zeros(val, bits, rev)]

(***************************************************************************)
(* The bit functions as a state machine.                                   *)
(***************************************************************************)
BitFns == {"bitrev", "int2bin", "ones_zeros", "inspect"}

InitBits ==
    /\ fn \in BitFns
    /\ args \in [val : 0..MaxVal, bits : 0..MaxBits, rev : BOOLEAN, long : BOOLEAN]
    /\ ret = NoValue
    /\ calls = 0

\* bitrev(val, bits), then bitrev of what it returned.
CallBitrev ==
    /\ fn = "bitrev"
    /\ calls < 2
    /\ ret' = bitrev(IF calls = 0 THEN args.val ELSE ret, args.bits, args.long)
    /\ calls' = calls + 1
    /\ UNCHANGED <<fn, args>>

\* int2bin(val) with the default num_bits.
CallInt2Bin ==
    /\ fn = "int2bin"
    /\ calls = 0
    /\ ret' = int2bin(args.val, 0, args.long)
    /\ calls' = 1
    /\ UNCHANGED <<fn, args>>

\* bin2int of the string int2bin returned.
CallBin2Int ==
    /\ fn = "int2bin"
    /\ calls = 1
    /\ ret' = bin2int(ret)
    /\ calls' = 2
    /\ UNCHANGED <<fn, args>>

\* ones(val, bits, bitrev) and zeros(val, bits, bitrev).
CallOnesZeros ==
    /\ fn = "ones_zeros"
    /\ calls = 0
    /\ ret' = [ones  |-> ones(args.val, args.bits, args.rev),
               zeros |-> zeros(args.val, args.bits, args.rev)]
    /\ calls' = 1
    /\ UNCHANGED <<fn, args>>

\* inspect(val, bitrev, num_bits).
CallInspect ==
    /\ fn = "inspect"
    /\ calls = 0
    /\ ret' = inspect(args.val, args.rev, args.bits, args.long)
    /\ calls' = 1
    /\ UNCHANGED <<fn, args>>

NextBits ==
    \/ CallBitrev
    \/ CallInt2Bin
    \/ CallBin2Int
    \/ CallOnesZeros
    \/ CallInspect

SpecBits == InitBits /\ [][NextBits]_vars

(***************************************************************************)
(* _group_str as a state machine.                                          *)
(***************************************************************************)
\* The characters of the strings handed to _group_str.
GroupChars == {"a", "b"}

GroupStrings == UNION {[1..n -> GroupChars] : n \in 0..MaxLen}

InitGroup ==
    /\ fn = "_group_str"
    /\ args \in [str : GroupStrings, length : 1..MaxGroup]
    /\ ret = NoValue
    /\ calls = 0

\* _group_str(str, length).
CallGroupStr ==
    /\ fn = "_group_str"
    /\ calls = 0
    /\ ret' = group_str(args.str, args.length)
    /\ calls' = 1
    /\ UNCHANGED <<fn, args>>

NextGroup == CallGroupStr

SpecGroup == InitGroup /\ [][NextGroup]_vars

(***************************************************************************)
(* Byte swapping (lines 315-348).                                          *)
(*                                                                         *)
(* Python integers are unbounded and the swaps work on up to 64 bits, so   *)
(* an integer is held here as the sequence of its bytes, least significant *)
(* first; bytes above the end of the sequence are zero.                    *)
(***************************************************************************)
Min(a, b) == IF a < b THEN a ELSE b
Max(a, b) == IF a > b THEN a ELSE b

ByteAt(x, i) == IF i <= Len(x) THEN x[i] ELSE 0

\* A hexadecimal literal, written as the source writes it: its bytes with
\* the most significant first.
HexLiteral(bytes) == Reversed(bytes)

\* x & m, x | y.
WideAnd(x, m) == [i \in 1..Min(Len(x), Len(m)) |-> BitAnd(x[i], m[i])]
WideOr(x, y) == [i \in 1..Max(Len(x), Len(y)) |-> BitOr(ByteAt(x, i), ByteAt(y, i))]

\* x << n and x >> n, for n a multiple of 8 (every shift of swab.h style code is).
WideShl(x, n) == [i \in 1..(n \div 8) |-> 0] \o x
WideShr(x, n) == SubSeq(x, (n \div 8) + 1, Len(x))

swab16(x) ==
    WideOr(WideShl(WideAnd(x, HexLiteral(<<0, 255>>)), 8),
           WideShr(WideAnd(x, HexLiteral(<<255, 0>>)), 8))

\* swab32 moving the three low bytes up and the top byte down: a rotation.
swab32_rotates(x) ==
    WideOr(WideShl(WideAnd(x, HexLiteral(<<0, 255, 255, 255>>)), 8),
           WideShr(WideAnd(x, HexLiteral(<<255, 0, 0, 0>>)), 24))

swab32(x) ==
    WideOr(WideOr(WideOr(
        WideShl(WideAnd(x, HexLiteral(<<0, 0, 0, 255>>)), 24),
        WideShl(WideAnd(x, HexLiteral(<<0, 0, 255, 0>>)), 8)),
        WideShr(WideAnd(x, HexLiteral(<<0, 255, 0, 0>>)), 8)),
        WideShr(WideAnd(x, HexLiteral(<<255, 0, 0, 0>>)), 24))

swab64(x) ==
    WideOr(WideOr(WideOr(WideOr(WideOr(WideOr(WideOr(
        WideShl(WideAnd(x, HexLiteral(<<0, 0, 0, 0, 0, 0, 0, 255>>)), 56),
        WideShl(WideAnd(x, HexLiteral(<<0, 0, 0, 0, 0, 0, 255, 0>>)), 40)),
        WideShl(WideAnd(x, HexLiteral(<<0, 0, 0, 0, 0, 255, 0, 0>>)), 24)),
        WideShl(WideAnd(x, HexLiteral(<<0, 0, 0, 0, 255, 0, 0, 0>>)), 8)),
        WideShr(WideAnd(x, HexLiteral(<<0, 0, 0, 255, 0, 0, 0, 0>>)), 8)),
        WideShr(WideAnd(x, HexLiteral(<<0, 0, 255, 0, 0, 0, 0, 0>>)), 24)),
        WideShr(WideAnd(x, HexLiteral(<<0, 255, 0, 0, 0, 0, 0, 0>>)), 40)),
        WideShr(WideAnd(x, HexLiteral(<<255, 0, 0, 0, 0, 0, 0, 0>>)), 56))

swah32(x) ==
    WideOr(WideShl(WideAnd(x, HexLiteral(<<0, 0, 255, 255>>)), 16),
           WideShr(WideAnd(x, HexLiteral(<<255, 255, 0, 0>>)), 16))

swahb32(x) ==
    WideOr(WideShl(WideAnd(x, HexLiteral(<<0, 255, 0, 255>>)), 8),
           WideShr(WideAnd(x, HexLiteral(<<255, 0, 255, 0>>)), 8))

(***************************************************************************)
(* The swaps as a state machine: each is applied to its argument and then  *)
(* to what it returned.                                                    *)
(***************************************************************************)
\* The byte values the arguments are made of.
ByteVals == {0, 18, 255}

\* The width, in bytes, each swap is documented for.
SwapBytesOf(f) ==
    CASE f = "swab16" -> 2
      [] f = "swab64" -> 8
      [] OTHER -> 4

SwapFns == {"swab16", "swab32", "swab64", "swah32", "swahb32"}

InitSwap ==
    /\ fn \in SwapFns
    /\ \E x \in [1..SwapBytesOf(fn) -> ByteVals] : args = [x |-> x]
    /\ ret = NoValue
    /\ calls = 0

SwapOperand == IF calls = 0 THEN args.x ELSE ret

CallSwab16 ==
    /\ fn = "swab16"
    /\ calls < 2
    /\ ret' = swab16(SwapOperand)
    /\ calls' = calls + 1
    /\ UNCHANGED <<fn, args>>

CallSwab32 ==
    /\ fn = "swab32"
    /\ calls < 2
    /\ ret' = swab32(SwapOperand)
    /\ calls' = calls + 1
    /\ UNCHANGED <<fn, args>>

CallSwab64 ==
    /\ fn = "swab64"
    /\ calls < 2
    /\ ret' = swab64(SwapOperand)
    /\ calls' = calls + 1
    /\ UNCHANGED <<fn, args>>

CallSwah32 ==
    /\ fn = "swah32"
    /\ calls < 2
    /\ ret' = swah32(SwapOperand)
    /\ calls' = calls + 1
    /\ UNCHANGED <<fn, args>>

CallSwahb32 ==
    /\ fn = "swahb32"
    /\ calls < 2
    /\ ret' = swahb32(SwapOperand)
    /\ calls' = calls + 1
    /\ UNCHANGED <<fn, args>>

NextSwap ==
    \/ CallSwab16
    \/ CallSwab32
    \/ CallSwab64
    \/ CallSwah32
    \/ CallSwahb32

SpecSwap == InitSwap /\ [][NextSwap]_vars

(***************************************************************************)
(* ratio (lines 95-96, 379-391).                                           *)
(*                                                                         *)
(* A Python value is a record: t is its type ("int", "float", "str",       *)
(* "NoneType") or "raise" for an exception in flight; an int is n, a float *)
(* is the fraction n / d in lowest terms, a string is s, and exc names the *)
(* exception.                                                              *)
(***************************************************************************)
PyInt(n) == [t |-> "int", n |-> n, d |-> 1, s |-> <<>>, exc |-> ""]
PyStr(s) == [t |-> "str", n |-> 0, d |-> 1, s |-> s, exc |-> ""]
PyNone == [t |-> "NoneType", n |-> 0, d |-> 1, s |-> <<>>, exc |-> ""]
PyRaise(e) == [t |-> "raise", n |-> 0, d |-> 1, s |-> <<>>, exc |-> e]

RECURSIVE Gcd(_, _)
Gcd(a, b) == IF b = 0 THEN a ELSE Gcd(b, a % b)

PyFloat(n, d) ==
    LET g == Gcd(n, d)
    IN  [t |-> "float", n |-> n \div g, d |-> d \div g, s |-> <<>>, exc |-> ""]

IsNumber(a) == a.t \in {"int", "float"}

\* a * b: a string times an int repeats the string; a string times a float
\* or a string is a TypeError.
PyMul(a, b) ==
    CASE a.t = "raise" -> a
      [] b.t = "raise" -> b
      [] a.t = "int" /\ b.t = "int" -> PyInt(a.n * b.n)
      [] IsNumber(a) /\ IsNumber(b) -> PyFloat(a.n * b.n, a.d * b.d)
      [] a.t = "str" /\ b.t = "int" -> PyStr(StrRepeat(a.s, b.n))
      [] a.t = "int" /\ b.t = "str" -> PyStr(StrRepeat(b.s, a.n))
      [] OTHER -> PyRaise("TypeError")

\* a / b with b a float, as everywhere in ratio.
PyDiv(a, b) ==
    CASE a.t = "raise" -> a
      [] b.t = "raise" -> b
      [] ~(IsNumber(a) /\ IsNumber(b)) -> PyRaise("TypeError")
      [] b.n = 0 -> PyRaise("ZeroDivisionError")
      [] OTHER -> PyFloat(a.n * b.d, a.d * b.n)

\* a == b: values of different types other than int and float are unequal.
PyEq(a, b) ==
    IF a.t = "str" \/ b.t = "str"
    THEN a.t = b.t /\ a.s = b.s
    ELSE a.n * b.d = b.n * a.d

\* x = 'x'
x == PyStr(<<"x">>)

ratio(n1, d1, n2, d2) ==
    CASE PyEq(n1, x) -> PyDiv(PyMul(d1, n2), PyMul(d2, PyFloat(1, 1)))
      [] ~PyEq(n1, x) /\ PyEq(n2, x) ->
            PyDiv(PyMul(d2, n1), PyMul(d1, PyFloat(1, 1)))
      [] ~PyEq(n1, x) /\ ~PyEq(n2, x) /\ PyEq(d1, x) ->
            PyDiv(PyMul(n1, d2), PyMul(n2, PyFloat(1, 1)))
      [] ~PyEq(n1, x) /\ ~PyEq(n2, x) /\ ~PyEq(d1, x) /\ PyEq(d2, x) ->
            PyDiv(PyMul(n2, d1), PyMul(n1, PyFloat(1, 1)))
      [] OTHER -> PyNone

(***************************************************************************)
(* ratio as a state machine.                                               *)
(***************************************************************************)
RatioArgs == {x} \cup {PyInt(n) : n \in 0..MaxNum}

InitRatio ==
    /\ fn = "ratio"
    /\ args \in [n1 : RatioArgs, d1 : RatioArgs, n2 : RatioArgs, d2 : RatioArgs]
    /\ ret = NoValue
    /\ calls = 0

\* ratio(n1, d1, n2, d2).
CallRatio ==
    /\ fn = "ratio"
    /\ calls = 0
    /\ ret' = ratio(args.n1, args.d1, args.n2, args.d2)
    /\ calls' = 1
    /\ UNCHANGED <<fn, args>>

NextRatio == CallRatio

SpecRatio == InitRatio /\ [][NextRatio]_vars

(***************************************************************************)
(* Sizes (lines 35-68, 204-280).                                           *)
(*                                                                         *)
(* The prefixes reach 2^80 and a bit count is divided by 8.0, so a number  *)
(* is held here as m * 2^e2 * 5^e5 with m divisible by neither 2 nor 5     *)
(* (or m = 0 and both exponents 0): one record per value, exact for ints   *)
(* and for the decimal texts float() reads.                                *)
(***************************************************************************)
RECURSIVE Scaled(_, _, _)
Scaled(m, e2, e5) ==
    IF m = 0 THEN [m |-> 0, e2 |-> 0, e5 |-> 0]
    ELSE IF m % 2 = 0 THEN Scaled(m \div 2, e2 + 1, e5)
    ELSE IF m % 5 = 0 THEN Scaled(m \div 5, e2, e5 + 1)
    ELSE [m |-> m, e2 |-> e2, e5 |-> e5]

ScaledMul(a, b) == Scaled(a.m * b.m, a.e2 + b.e2, a.e5 + b.e5)

\* a / 8.0
ScaledDiv8(a) == Scaled(a.m, a.e2 - 3, a.e5)

\* A hexadecimal literal made of one digit and zeros after it: 0x400 is
\* HexConst(4, 2).
HexConst(digit, nzeros) == Scaled(digit, 4 * nzeros, 0)

K == HexConst(4, 2)
M == HexConst(1, 5)
G == HexConst(4, 7)
T == HexConst(1, 10)
P == HexConst(4, 12)
E == HexConst(1, 15)
Z == HexConst(4, 17)
Y == HexConst(1, 20)
k == K

\* _mult_map[mult_str]; a key it does not hold is a KeyError.
MultMapKeys ==
    {"k", "K", "m", "M", "g", "G", "t", "T", "p", "P", "e", "E", "z", "Z", "y", "Y"}

\* _mult_map with the metric kilo, k = 1000.
mult_map_metric_kilo(c) ==
    CASE c = "k" -> Scaled(1000, 0, 0)
      [] c = "K" -> K
      [] c \in {"m", "M"} -> M
      [] c \in {"g", "G"} -> G
      [] c \in {"t", "T"} -> T
      [] c \in {"p", "P"} -> P
      [] c \in {"e", "E"} -> E
      [] c \in {"z", "Z"} -> Z
      [] c \in {"y", "Y"} -> Y

mult_map(c) ==
    CASE c = "k" -> k
      [] c = "K" -> K
      [] c \in {"m", "M"} -> M
      [] c \in {"g", "G"} -> G
      [] c \in {"t", "T"} -> T
      [] c \in {"p", "P"} -> P
      [] c \in {"e", "E"} -> E
      [] c \in {"z", "Z"} -> Z
      [] c \in {"y", "Y"} -> Y

\* The character classes of _size_re and _sizeunit_re.
ReDigit == {"0", "1", "2", "3", "4", "5", "6", "7", "8", "9", "."}
ReSpace == {" "}
RePrefix == {"k", "K", "m", "M", "g", "G", "t", "T", "p", "P", "e", "E", "z", "Z", "y", "Y"}
ReUnit == {"b", "B"}

CharAt(s, i) == IF i >= 1 /\ i <= Len(s) THEN s[i] ELSE ""

\* The ways ([0-9\.]*)\s*([kKmMgGtTpPeEzZyY]?)i?([bB].*) matches s from
\* position p: nd digits, ns spaces, np prefix letters, ni infixes.
SizeReMatchesAt(s, p) ==
    {c \in [nd : 0..Len(s), ns : 0..Len(s), np : 0..1, ni : 0..1] :
        /\ \A i \in 0..(c.nd - 1) : CharAt(s, p + i) \in ReDigit
        /\ \A i \in 0..(c.ns - 1) : CharAt(s, p + c.nd + i) \in ReSpace
        /\ c.np = 1 => CharAt(s, p + c.nd + c.ns) \in RePrefix
        /\ c.ni = 1 => CharAt(s, p + c.nd + c.ns + c.np) = "i"
        /\ CharAt(s, p + c.nd + c.ns + c.np + c.ni) \in ReUnit}

\* Every quantifier of the patterns is greedy: the match the engine takes
\* is the one that takes most at the earliest quantifier.
Greedier(c, d) ==
    \/ c.nd > d.nd
    \/ c.nd = d.nd /\ c.ns > d.ns
    \/ c.nd = d.nd /\ c.ns = d.ns /\ c.np > d.np
    \/ c.nd = d.nd /\ c.ns = d.ns /\ c.np = d.np /\ c.ni >= d.ni

NoMatch == [matched |-> FALSE, g1 |-> <<>>, g2 |-> <<>>, g3 |-> <<>>]

\* _size_re.search(s): the match at the leftmost position that has one.
SizeReSearch(s) ==
    LET starts == {p \in 1..(Len(s) + 1) : SizeReMatchesAt(s, p) # {}}
    IN  IF starts = {} THEN NoMatch
        ELSE LET p == CHOOSE q \in starts : \A r \in starts : q <= r
                 c == CHOOSE c1 \in SizeReMatchesAt(s, p) :
                         \A c2 \in SizeReMatchesAt(s, p) : Greedier(c1, c2)
                 u == p + c.nd + c.ns + c.np + c.ni
             IN  [matched |-> TRUE,
                  g1 |-> SubSeq(s, p, p + c.nd - 1),
                  g2 |-> SubSeq(s, p + c.nd + c.ns, p + c.nd + c.ns + c.np - 1),
                  g3 |-> SubSeq(s, u, Len(s))]

\* _sizeunit_re.search(s): ([kKmMgGtTpPeEzZyY]?)i?([bB].*), whose groups
\* 1 and 2 are g2 and g3 here.
SizeUnitReMatchesAt(s, p) ==
    {c \in [nd : {0}, ns : {0}, np : 0..1, ni : 0..1] :
        /\ c.np = 1 => CharAt(s, p) \in RePrefix
        /\ c.ni = 1 => CharAt(s, p + c.np) = "i"
        /\ CharAt(s, p + c.np + c.ni) \in ReUnit}

SizeUnitReSearch(s) ==
    LET starts == {p \in 1..(Len(s) + 1) : SizeUnitReMatchesAt(s, p) # {}}
    IN  IF starts = {} THEN NoMatch
        ELSE LET p == CHOOSE q \in starts : \A r \in starts : q <= r
                 c == CHOOSE c1 \in SizeUnitReMatchesAt(s, p) :
                         \A c2 \in SizeUnitReMatchesAt(s, p) : Greedier(c1, c2)
             IN  [matched |-> TRUE,
                  g1 |-> <<>>,
                  g2 |-> SubSeq(s, p, p + c.np - 1),
                  g3 |-> SubSeq(s, p + c.np + c.ni, Len(s))]

\* float(s) for a text of digits and dots: a ValueError unless it holds at
\* least one digit and at most one dot.
DecimalDigits == <<"0", "1", "2", "3", "4", "5", "6", "7", "8", "9">>

DigitValue(c) == (CHOOSE i \in 1..10 : DecimalDigits[i] = c) - 1

RECURSIVE DecimalValue(_)
DecimalValue(s) ==
    IF s = <<>> THEN 0
    ELSE 10 * DecimalValue(SubSeq(s, 1, Len(s) - 1)) + DigitValue(s[Len(s)])

float(s) ==
    LET dots == {i \in 1..Len(s) : s[i] = "."}
        digits == SelectSeq(s, LAMBDA c : c # ".")
        nfrac == IF dots = {} THEN 0 ELSE Len(s) - (CHOOSE i \in dots : TRUE)
    IN  IF Cardinality(dots) > 1 \/ digits = <<>>
        THEN [error |-> "ValueError", value |-> Scaled(0, 0, 0)]
        ELSE [error |-> "", value |-> Scaled(DecimalValue(digits), -nfrac, -nfrac)]

\* s.lower()
UpperCase == <<"A", "B", "C", "D", "E", "F", "G", "H", "I", "J", "K", "L", "M",
               "N", "O", "P", "Q", "R", "S", "T", "U", "V", "W", "X", "Y", "Z">>
LowerCase == <<"a", "b", "c", "d", "e", "f", "g", "h", "i", "j", "k", "l", "m",
               "n", "o", "p", "q", "r", "s", "t", "u", "v", "w", "x", "y", "z">>

LowerChar(c) ==
    IF \E i \in 1..26 : UpperCase[i] = c
    THEN LowerCase[CHOOSE i \in 1..26 : UpperCase[i] = c]
    ELSE c

Lower(s) == [i \in 1..Len(s) |-> LowerChar(s[i])]

\* _str_is_bytes comparing the words without lower().
str_is_bytes_case_sensitive(s) ==
    CASE StartsWith(s, <<"b", "y", "t", "e">>) -> "True"
      [] ~StartsWith(s, <<"b", "y", "t", "e">>)
         /\ StartsWith(s, <<"b", "i", "t">>) -> "False"
      [] OTHER -> IF s[1] = "B" THEN "True"
                  ELSE IF s[1] = "b" THEN "False"
                  ELSE "None"

\* "True", "False" or "None".
str_is_bytes(s) ==
    CASE StartsWith(Lower(s), <<"b", "y", "t", "e">>) -> "True"
      [] ~StartsWith(Lower(s), <<"b", "y", "t", "e">>)
         /\ StartsWith(Lower(s), <<"b", "i", "t">>) -> "False"
      [] OTHER -> IF s[1] = "B" THEN "True"
                  ELSE IF s[1] = "b" THEN "False"
                  ELSE "None"

\* What inspect_bytes is handed and the counts it formats: bytes, and bits
\* as num_bytes * 8.0.  (The text and its rounding are not modelled.)
inspect_bytes(num_bytes) ==
    [num_bytes |-> num_bytes, num_bits |-> ScaledMul(num_bytes, Scaled(8, 0, 0))]

\* What a call of size() did: raised exc, or printed "Interpreting input
\* as <num> <mult_str><bit_byte_str>" and the report of inspect_bytes.
SizeRaised(exc) ==
    [out |-> "raised", exc |-> exc, num |-> Scaled(0, 0, 0), mult_str |-> <<>>,
     bit_byte_str |-> "", report |-> inspect_bytes(Scaled(0, 0, 0))]

SizePrinted(num, mult_str, bit_byte_str, num_bytes) ==
    [out |-> "printed", exc |-> "", num |-> num, mult_str |-> mult_str,
     bit_byte_str |-> bit_byte_str, report |-> inspect_bytes(num_bytes)]

\* Lines 260-280 of size().
SizeConvert(num, mult_str, is_bytes) ==
    IF Len(mult_str) # 0 /\ mult_str[1] \notin MultMapKeys
    THEN SizeRaised("KeyError")
    ELSE LET mult == IF Len(mult_str) = 0 THEN Scaled(1, 0, 0) ELSE mult_map(mult_str[1])
         IN  IF is_bytes = "None"
             THEN SizeRaised("size(): Unable to determine if bits or bytes were specified")
             ELSE IF is_bytes = "True"
             THEN SizePrinted(num, mult_str, "Bytes", ScaledMul(mult, num))
             ELSE SizePrinted(num, mult_str, "bits", ScaledDiv8(ScaledMul(mult, num)))

\* size(val) for a string val.
SizeOfString(val) ==
    LET m == SizeReSearch(val)
    IN  IF ~m.matched THEN SizeRaised("size(): Unrecognized value specified")
        ELSE IF float(m.g1).error # "" THEN SizeRaised(float(m.g1).error)
        ELSE SizeConvert(float(m.g1).value, m.g2, str_is_bytes(m.g3))

\* size(val, unit) for a number val; has_unit is false for unit=None.
SizeOfNumber(val, has_unit, unit) ==
    IF ~has_unit THEN SizeRaised("size(): unit must be specified for numeric inputs")
    ELSE LET m == SizeUnitReSearch(unit)
         IN  IF ~m.matched THEN SizeRaised("size(): Unrecognized unit specified")
             ELSE SizeConvert(Scaled(val, 0, 0), m.g2, str_is_bytes(m.g3))

size(a) ==
    IF a.is_str THEN SizeOfString(a.text) ELSE SizeOfNumber(a.val, a.has_unit, a.unit)

(***************************************************************************)
(* size as a state machine.  An argument is put together from the parts a  *)
(* caller writes: a magnitude, a space, a prefix letter, the infix "i" and *)
(* a unit token; args keeps the parts beside the text made of them.        *)
(***************************************************************************)
MagnitudeTexts ==
    {<<>>, <<".">>, <<"1", ".", "5">>, <<"1", "2">>}
        \cup {<<DecimalDigits[n + 1]>> : n \in 0..MaxMag}

SpaceTexts == {<<>>, <<" ">>}

\* No prefix, the sixteen binary-multiple letters, and two letters that are none.
PrefixTexts == {<<>>, <<"X">>, <<"h">>} \cup {<<c>> : c \in RePrefix}

InfixTexts == {<<>>, <<"i">>}

UnitTokens ==
    {<<>>, <<"W">>,
     <<"b">>, <<"B">>, <<"b", "p", "s">>, <<"B", "p", "s">>,
     <<"b", "i", "t">>, <<"B", "i", "t">>, <<"b", "i", "t", "s">>, <<"B", "I", "T", "S">>,
     <<"b", "y", "t", "e">>, <<"B", "y", "t", "e">>, <<"B", "Y", "T", "E">>,
     <<"b", "y", "t", "e", "s">>}

SizeStringArgs ==
    {[is_str |-> TRUE, text |-> mg \o sp \o pr \o nf \o un, val |-> 0,
      has_unit |-> FALSE, unit |-> <<>>,
      mag |-> mg, pre |-> pr, inf |-> nf, token |-> un] :
        mg \in MagnitudeTexts, sp \in SpaceTexts, pr \in PrefixTexts,
        nf \in InfixTexts, un \in UnitTokens}

SizeNumberArgs ==
    {[is_str |-> FALSE, text |-> <<>>, val |-> n,
      has_unit |-> TRUE, unit |-> pr \o nf \o un,
      mag |-> <<DecimalDigits[n + 1]>>, pre |-> pr, inf |-> nf, token |-> un] :
        n \in 0..MaxMag, pr \in PrefixTexts, nf \in InfixTexts, un \in UnitTokens}
    \cup
    {[is_str |-> FALSE, text |-> <<>>, val |-> n,
      has_unit |-> FALSE, unit |-> <<>>,
      mag |-> <<DecimalDigits[n + 1]>>, pre |-> <<>>, inf |-> <<>>, token |-> <<>>] :
        n \in 0..MaxMag}

InitSize ==
    /\ fn = "size"
    /\ args \in SizeStringArgs \cup SizeNumberArgs
    /\ ret = NoValue
    /\ calls = 0

\* size(val) for a string val.
CallSizeString ==
    /\ fn = "size"
    /\ calls = 0
    /\ args.is_str
    /\ ret' = size(args)
    /\ calls' = 1
    /\ UNCHANGED <<fn, args>>

\* size(val, unit) for a number val.
CallSizeNumber ==
    /\ fn = "size"
    /\ calls = 0
    /\ ~args.is_str
    /\ ret' = size(args)
    /\ calls' = 1
    /\ UNCHANGED <<fn, args>>

NextSize ==
    \/ CallSizeString
    \/ CallSizeNumber

SpecSize == InitSize /\ [][NextSize]_vars

(***************************************************************************)
(* The properties checked.                                                 *)
(***************************************************************************)
\* The number of bits of v: 0 for 0.
RECURSIVE BitLength(_)
BitLength(v) == IF v = 0 THEN 0 ELSE 1 + BitLength(v \div 2)

\* The groups of a grouped string: its maximal runs of characters that are
\* not spaces, in order.
RECURSIVE GroupsFrom(_, _, _)
GroupsFrom(s, i, cur) ==
    IF i > Len(s) THEN (IF cur = <<>> THEN <<>> ELSE <<cur>>)
    ELSE IF s[i] = " "
         THEN (IF cur = <<>> THEN <<>> ELSE <<cur>>) \o GroupsFrom(s, i + 1, <<>>)
         ELSE GroupsFrom(s, i + 1, Append(cur, s[i]))

Groups(s) == GroupsFrom(s, 1, <<>>)

\* The characters of the first n groups, counted.
RECURSIVE GroupsLen(_, _)
GroupsLen(g, n) == IF n = 0 THEN 0 ELSE GroupsLen(g, n - 1) + Len(g[n])

Range(s) == {s[i] : i \in 1..Len(s)}

\* C1: bitrev applied twice with the same width gives the value back, for
\* every width that is at least the value's bit length.
C1_DoubleBitrevIsIdentity ==
    (fn = "bitrev" /\ calls = 2 /\ args.bits >= BitLength(args.val))
        => ret = args.val

\* C2: ratio returns None, and raises nothing, when none or more than one
\* of its arguments is the unknown 'x'.
C2_NoneUnlessOneUnknown ==
    (fn = "ratio" /\ calls = 1
        /\ Cardinality({a \in {"n1", "d1", "n2", "d2"} : args[a] = x}) # 1)
        => ret = PyNone

\* The errors size() raises itself.
SizeErrors ==
    {"size(): Unrecognized value specified",
     "size(): unit must be specified for numeric inputs",
     "size(): Unrecognized unit specified",
     "size(): Unable to determine if bits or bytes were specified"}

\* C3: size() raises one of its own 'size(): ...' errors and prints nothing
\* when the letter in front of the b/B unit token is no binary-multiple
\* symbol, in the string form and in the number-plus-unit form.  (Checked
\* for the inputs that are well formed but for that letter: an integer
\* magnitude, a unit token in b/B.)
C3_UnrecognizedPrefixIsAnError ==
    (fn = "size" /\ calls = 1
        /\ args.mag # <<>> /\ \A i \in 1..Len(args.mag) : args.mag[i] # "."
        /\ args.pre # <<>> /\ args.pre[1] \notin RePrefix
        /\ args.token # <<>> /\ args.token[1] \in {"b", "B"})
        => (ret.out = "raised" /\ ret.exc \in SizeErrors)

\* C4 as stated: the case of the unit token's first character decides:
\* uppercase B is bytes, lowercase b is bits unless the token spells "byte".
C4_FirstCharacterDecides ==
    (fn = "size" /\ calls = 1 /\ ret.out = "printed")
        => /\ args.token[1] = "B" => ret.bit_byte_str = "Bytes"
           /\ (args.token[1] = "b"
                 /\ ~StartsWith(args.token, <<"b", "y", "t", "e">>))
                 => ret.bit_byte_str = "bits"

\* C4 as amended: a unit token that spells "byte" in any case is bytes and
\* one that spells "bit" in any case is bits; only for the other tokens does
\* the first character decide, uppercase B bytes and lowercase b bits.
C4_WordThenFirstCharacter ==
    (fn = "size" /\ calls = 1 /\ ret.out = "printed")
        => ret.bit_byte_str =
              (IF StartsWith(Lower(args.token), <<"b", "y", "t", "e">>) THEN "Bytes"
               ELSE IF StartsWith(Lower(args.token), <<"b", "i", "t">>) THEN "bits"
               ELSE IF args.token[1] = "B" THEN "Bytes"
               ELSE "bits")

\* A size with the unit token 'Bit' has been reported as bits.
C4_Witness ==
    /\ fn = "size" /\ calls = 1 /\ ret.out = "printed"
    /\ args.token = <<"B", "i", "t">>
    /\ ret.bit_byte_str = "bits"

\* The rank of a prefix: none 0, k/K 1, m/M 2, ... y/Y 8.
PrefixRanks == <<"k", "m", "g", "t", "p", "e", "z", "y">>

PrefixRank(pre) ==
    IF pre = <<>> THEN 0
    ELSE CHOOSE r \in 1..8 : PrefixRanks[r] = LowerChar(pre[1])

\* An integer magnitude, a recognized prefix or none, a unit token in b/B.
SizeWellFormed ==
    /\ args.is_str \/ args.has_unit
    /\ args.mag # <<>> /\ \A i \in 1..Len(args.mag) : args.mag[i] # "."
    /\ args.pre = <<>> \/ args.pre[1] \in RePrefix
    /\ args.token # <<>> /\ args.token[1] \in {"b", "B"}

\* C5: for a well-formed input of magnitude n and prefix rank r, size()
\* hands inspect_bytes n * 1024^r for bytes and n * 1024^r / 8 for bits.
C5_BinaryMultiples ==
    (fn = "size" /\ calls = 1 /\ SizeWellFormed)
        => /\ ret.out = "printed"
           /\ ret.report.num_bytes =
                 Scaled(DecimalValue(args.mag),
                        10 * PrefixRank(args.pre)
                           - (IF ret.bit_byte_str = "bits" THEN 3 ELSE 0),
                        0)

\* size('1KB') has handed inspect_bytes 1024 bytes.
C5_Witness ==
    /\ fn = "size" /\ calls = 1
    /\ args.text = <<"1", "K", "B">>
    /\ ret.out = "printed"
    /\ ret.report.num_bytes = [m |-> 1, e2 |-> 10, e5 |-> 0]

\* C6: bin2int(int2bin(v)) is v for every v >= 0, 0 included.
C6_Int2BinRoundTrip ==
    (fn = "int2bin" /\ calls = 2) => ret = args.val

\* The round trip of a value of two hexadecimal digits, a Python 2 long.
C6_Witness ==
    fn = "int2bin" /\ calls = 2 /\ args.val >= 16 /\ args.long /\ ret = args.val

\* C7: ones(v, bits) and zeros(v, bits) share no element and hold exactly
\* 0 .. bits-1 between them, each once; reversed or not.
C7_OnesZerosPartition ==
    (fn = "ones_zeros" /\ calls = 1)
        => /\ Range(ret.ones) \cap Range(ret.zeros) = {}
           /\ Range(ret.ones) \cup Range(ret.zeros) = 0..(args.bits - 1)
           /\ Len(ret.ones) + Len(ret.zeros) = args.bits

\* Reversed lists of a value with ones and zeros in the width.
C7_Witness ==
    /\ fn = "ones_zeros" /\ calls = 1 /\ args.rev /\ args.bits >= 5
    /\ ret.ones # <<>> /\ ret.zeros # <<>>

\* Two byte sequences hold the same integer.
WideEq(a, b) == \A i \in 1..Max(Len(a), Len(b)) : ByteAt(a, i) = ByteAt(b, i)

\* C8: each swap applied twice gives the value back, and what a swap
\* returns has no bit above the swap's width.
C8_SwapsAreSelfInverse ==
    (fn \in SwapFns /\ calls >= 1)
        => /\ \A i \in 1..Len(ret) : i > SwapBytesOf(fn) => ret[i] = 0
           /\ calls = 2 => WideEq(ret, args.x)

\* swab32 applied twice to a value of four different-looking bytes.
C8_Witness ==
    /\ fn = "swab32" /\ calls = 2
    /\ args.x = <<18, 255, 0, 18>>
    /\ WideEq(ret, args.x)

\* C9: _group_str groups right justified: without its spaces the result is
\* the string; there are ceil(len/length) groups; every group after the
\* first has length characters and the first has len mod length characters,
\* or length when that is 0.
C9_GroupsRightJustified ==
    (fn = "_group_str" /\ calls = 1 /\ args.str # <<>>)
        => LET g == Groups(ret)
               n == Len(args.str)
           IN  /\ SelectSeq(ret, LAMBDA c : c # " ") = args.str
               /\ Len(g) = (n + args.length - 1) \div args.length
               /\ \A i \in 2..Len(g) : Len(g[i]) = args.length
               /\ Len(g[1]) = (IF n % args.length # 0
                               THEN n % args.length ELSE args.length)

\* Five characters in groups of four: a first group of one.
C9_Witness ==
    /\ fn = "_group_str" /\ calls = 1
    /\ Len(args.str) = 5 /\ args.length = 4
    /\ Len(Groups(ret)) = 2 /\ Len(Groups(ret)[1]) = 1

\* C10: in the report of inspect, not reversed, there is one label per
\* group of the grouped binary line and the n-th label is the index of the
\* leftmost bit of the n-th group, whatever the width.
C10_LabelsMatchGroups ==
    (fn = "inspect" /\ calls = 1 /\ ~args.rev)
        => LET g == Groups(ret.grouped)
           IN  /\ Len(ret.labels) = Len(g)
               /\ \A n \in 1..Len(g) :
                     ret.labels[n] = Len(ret.binary) - 1 - GroupsLen(g, n - 1)

=============================================================================
